---- MODULE Spec2Model ----
(***************************************************************************)
(* Cookie-based JWT session authentication of the Next.js template:        *)
(* the login, logout and me API routes and the route-protecting            *)
(* middleware.  JavaScript strings that the code inspects character by     *)
(* character (paths, e-mail addresses, passwords) are sequences of         *)
(* one-character strings.  Time is counted in days, the unit of the        *)
(* token lifetime '7d'.                                                    *)
(***************************************************************************)
EXTENDS Integers, Sequences, FiniteSets, TLC

VARIABLES
    secret,     \* process.env.JWT_SECRET ("" when unset or empty)
    nodeEnv,    \* process.env.NODE_ENV
    now,        \* wall clock, in days
    issued,     \* history: the tokens login has set, each with the user it answered
    loggedOut,  \* history: issued tokens that a successful logout request carried
    req,        \* the request handled last today
    resp        \* the response to it

vars == <<secret, nodeEnv, now, issued, loggedOut, req, resp>>

\* the browser side: one page component and the useAuth instance it holds
VARIABLES
    component,  \* what uses the hook: "LoginPage", "ProfilePage" or another "Consumer"
    authState,  \* useAuth: {user, loading, error, authenticated}
    pending,    \* useAuth: the API requests awaiting their response
    started,    \* number of API requests sent so far
    returned,   \* the hook call that returned last, with its value
    nav,        \* the navigations issued through the router, oldest first
    page,       \* the page component: mounted, form state, last effect run
    wrapper,    \* withAuth's component around ProfilePage, with its own useAuth state
    sinceLogout \* history: logout resolved true and no login or refreshUser began since

cvars == <<component, authState, pending, started, returned, nav, page,
           wrapper, sinceLogout>>

\* an HTTP client that keeps the cookie the server sets
VARIABLES
    jar,        \* the 'token' cookie the client holds, with the day it was set
    session     \* history: the last response that changed the cookie

jvars == <<jar, session>>

----------------------------------------------------------------------------
(* Bounds *)

\* the clock runs from day 0 to day MaxTime
MaxTime == 8
\* logins are accepted by the model on days 0..MaxIssue
MaxIssue == 0
\* the browser sends at most MaxCalls API requests
MaxCalls == 4

----------------------------------------------------------------------------
(* JavaScript values and strings *)

Undefined == [type |-> "undefined"]
Null == [type |-> "null"]
Str(chars) == [type |-> "string", val |-> chars]
Num(n) == [type |-> "number", val |-> n]

\* JavaScript truthiness, as `!email`, `!token`, `!secret` test it
Truthy(v) ==
    CASE v.type = "undefined" -> FALSE
      [] v.type = "null" -> FALSE
      [] v.type = "string" -> v.val # <<>>
      [] v.type = "number" -> v.val # 0
      [] OTHER -> TRUE

\* the === operator
StrictEq(a, b) == a.type = b.type /\ a = b

UpperLetters ==
    <<"A","B","C","D","E","F","G","H","I","J","K","L","M",
      "N","O","P","Q","R","S","T","U","V","W","X","Y","Z">>
LowerLetters ==
    <<"a","b","c","d","e","f","g","h","i","j","k","l","m",
      "n","o","p","q","r","s","t","u","v","w","x","y","z">>

LowerChar(c) ==
    IF \E i \in 1..26 : UpperLetters[i] = c
    THEN LowerLetters[CHOOSE i \in 1..26 : UpperLetters[i] = c]
    ELSE c

\* String.prototype.toLowerCase
toLowerCase(s) == [i \in 1..Len(s) |-> LowerChar(s[i])]

\* String.prototype.startsWith
startsWith(s, prefix) ==
    Len(s) >= Len(prefix) /\ SubSeq(s, 1, Len(prefix)) = prefix

----------------------------------------------------------------------------
(* String constants of the source, spelled as character sequences *)

S_user_example_com == <<"u","s","e","r","@","e","x","a","m","p","l","e",".","c","o","m">>
S_password123 == <<"p","a","s","s","w","o","r","d","1","2","3">>
S_profile == <<"/","p","r","o","f","i","l","e">>
S_dashboard == <<"/","d","a","s","h","b","o","a","r","d">>
S_settings == <<"/","s","e","t","t","i","n","g","s">>
S_api_protected == <<"/","a","p","i","/","p","r","o","t","e","c","t","e","d">>
S_login == <<"/","l","o","g","i","n">>
S_slash == <<"/">>

\* inputs that differ from the stored credential in letter case or content
S_USER_EXAMPLE_COM == <<"U","s","e","r","@","E","X","A","M","P","L","E",".","c","o","m">>
S_other_example_com == <<"o","t","h","e","r","@","e","x","a","m","p","l","e",".","c","o","m">>
S_Password123 == <<"P","a","s","s","w","o","r","d","1","2","3">>

\* further request paths
S_profile_edit == <<"/","p","r","o","f","i","l","e","/","e","d","i","t">>
S_profilex == <<"/","p","r","o","f","i","l","e","x">>
S_root == <<"/">>

----------------------------------------------------------------------------
(* Token codec: the jsonwebtoken calls of the handlers *)

\* the configured secrets a deployment may use
Secrets == {"k1", "k2"}

\* HMAC over the claim set: two signatures are equal iff claims and key are
Mac(payload, key) == [over |-> payload, key |-> key]

\* token lifetime { expiresIn: '7d' }, in days
TTL == 7

CookieAbsent == [kind |-> "absent"]
CookieEmpty == [kind |-> "empty"]
CookieMalformed == [kind |-> "malformed"]

\* jwt.sign(claims, secret, { expiresIn }) at time clock
jwtSign(claims, key, expiresIn, clock) ==
    LET payload == [sub |-> claims.sub, email |-> claims.email, name |-> claims.name,
                    iat |-> clock, exp |-> clock + expiresIn]
    IN [kind |-> "jwt", payload |-> payload, sig |-> Mac(payload, key)]

\* faulty variant: a token is still accepted at the instant it expires
jwtVerify_lateExpiry(token, key, clock) ==
    IF token.kind # "jwt"
    THEN [threw |-> "JsonWebTokenError", payload |-> Undefined]
    ELSE IF token.sig # Mac(token.payload, key)
    THEN [threw |-> "JsonWebTokenError", payload |-> Undefined]
    ELSE IF clock > token.payload.exp
    THEN [threw |-> "TokenExpiredError", payload |-> Undefined]
    ELSE [threw |-> "none", payload |-> token.payload]

\* faulty variant: the signature is checked against the claims but not against the key
jwtVerify_anyKey(token, key, clock) ==
    IF token.kind # "jwt"
    THEN [threw |-> "JsonWebTokenError", payload |-> Undefined]
    ELSE IF token.sig.over # token.payload
    THEN [threw |-> "JsonWebTokenError", payload |-> Undefined]
    ELSE IF clock >= token.payload.exp
    THEN [threw |-> "TokenExpiredError", payload |-> Undefined]
    ELSE [threw |-> "none", payload |-> token.payload]

\* faulty variant: tokens that were presented at logout are refused afterwards
jwtVerify_revoking(token, key, clock) ==
    IF token.kind # "jwt" \/ token \in loggedOut
    THEN [threw |-> "JsonWebTokenError", payload |-> Undefined]
    ELSE IF token.sig # Mac(token.payload, key)
    THEN [threw |-> "JsonWebTokenError", payload |-> Undefined]
    ELSE IF clock >= token.payload.exp
    THEN [threw |-> "TokenExpiredError", payload |-> Undefined]
    ELSE [threw |-> "none", payload |-> token.payload]

\* jwt.verify(token, secret) at time clock: the payload, or the error thrown
jwtVerify(token, key, clock) ==
    IF token.kind # "jwt"
    THEN [threw |-> "JsonWebTokenError", payload |-> Undefined]
    ELSE IF token.sig # Mac(token.payload, key)
    THEN [threw |-> "JsonWebTokenError", payload |-> Undefined]
    ELSE IF clock >= token.payload.exp
    THEN [threw |-> "TokenExpiredError", payload |-> Undefined]
    ELSE [threw |-> "none", payload |-> token.payload]

----------------------------------------------------------------------------
(* Session cookie *)

CookieMaxAge == 60 * 60 * 24 * 7

\* serialize('token', value, { httpOnly, secure, sameSite, maxAge, path })
serialize(value, maxAge, env) ==
    [name |-> "token", value |-> value, httpOnly |-> TRUE,
     secure |-> (env = "production"), sameSite |-> "strict",
     maxAge |-> maxAge, path |-> "/"]

\* res.status(status).json(body), with the Set-Cookie header set before it
Json(status, body, setCookie) ==
    [status |-> status, body |-> body, setCookie |-> setCookie]

----------------------------------------------------------------------------
(* POST /api/login *)

USERS ==
    << [id |-> "1", email |-> S_user_example_com,
        password |-> S_password123, name |-> "Test User"] >>

\* faulty variant: the password is not compared
UserMatches_emailOnly(u, email, password) ==
    toLowerCase(u.email) = toLowerCase(email.val)

\* the predicate of USERS.find; called only with a string email
UserMatches(u, email, password) ==
    /\ toLowerCase(u.email) = toLowerCase(email.val)
    /\ StrictEq(Str(u.password), password)

\* USERS.find(...): index of the first match, 0 for undefined
FindUser(email, password) ==
    IF \E i \in DOMAIN USERS : UserMatches(USERS[i], email, password)
    THEN CHOOSE i \in DOMAIN USERS :
            /\ UserMatches(USERS[i], email, password)
            /\ \A j \in 1..(i - 1) : ~UserMatches(USERS[j], email, password)
    ELSE 0

\* faulty variant: an unknown email gets an answer of its own
login_userNotFound(request, key, env, clock) ==
    IF request.method # "POST"
    THEN Json(405, [error |-> "Method not allowed"], <<>>)
    ELSE IF request.body.type # "object"
    THEN \* destructuring null or undefined throws; caught by the handler
         Json(500, [error |-> "Internal server error"], <<>>)
    ELSE LET email == request.body.email
             password == request.body.password
         IN IF ~Truthy(email) \/ ~Truthy(password)
            THEN Json(400, [error |-> "Email and password are required"], <<>>)
            ELSE IF email.type # "string"
            THEN \* email.toLowerCase is not a function; caught by the handler
                 Json(500, [error |-> "Internal server error"], <<>>)
            ELSE LET found == FindUser(email, password)
                 IN IF found = 0 /\ \A k \in DOMAIN USERS :
                                     toLowerCase(USERS[k].email) # toLowerCase(email.val)
                    THEN Json(404, [error |-> "User not found"], <<>>)
                    ELSE IF found = 0
                    THEN Json(401, [error |-> "Invalid email or password"], <<>>)
                    ELSE IF key = ""
                    THEN Json(500, [error |-> "Server configuration error"], <<>>)
                    ELSE LET user == USERS[found]
                             token == jwtSign([sub |-> user.id, email |-> user.email,
                                               name |-> user.name], key, TTL, clock)
                             cookie == serialize(token, CookieMaxAge, env)
                         IN Json(200,
                                 [success |-> TRUE,
                                  user |-> [id |-> user.id, email |-> user.email,
                                            name |-> user.name]],
                                 <<cookie>>)

\* faulty variant: the secret is checked before the credentials
login_secretFirst(request, key, env, clock) ==
    IF request.method # "POST"
    THEN Json(405, [error |-> "Method not allowed"], <<>>)
    ELSE IF request.body.type # "object"
    THEN \* destructuring null or undefined throws; caught by the handler
         Json(500, [error |-> "Internal server error"], <<>>)
    ELSE LET email == request.body.email
             password == request.body.password
         IN IF ~Truthy(email) \/ ~Truthy(password)
            THEN Json(400, [error |-> "Email and password are required"], <<>>)
            ELSE IF email.type # "string"
            THEN \* email.toLowerCase is not a function; caught by the handler
                 Json(500, [error |-> "Internal server error"], <<>>)
            ELSE IF key = ""
            THEN Json(500, [error |-> "Server configuration error"], <<>>)
            ELSE LET found == FindUser(email, password)
                 IN IF found = 0
                    THEN Json(401, [error |-> "Invalid email or password"], <<>>)
                    ELSE IF key = ""
                    THEN Json(500, [error |-> "Server configuration error"], <<>>)
                    ELSE LET user == USERS[found]
                             token == jwtSign([sub |-> user.id, email |-> user.email,
                                               name |-> user.name], key, TTL, clock)
                             cookie == serialize(token, CookieMaxAge, env)
                         IN Json(200,
                                 [success |-> TRUE,
                                  user |-> [id |-> user.id, email |-> user.email,
                                            name |-> user.name]],
                                 <<cookie>>)

login(request, key, env, clock) ==
    IF request.method # "POST"
    THEN Json(405, [error |-> "Method not allowed"], <<>>)
    ELSE IF request.body.type # "object"
    THEN \* destructuring null or undefined throws; caught by the handler
         Json(500, [error |-> "Internal server error"], <<>>)
    ELSE LET email == request.body.email
             password == request.body.password
         IN IF ~Truthy(email) \/ ~Truthy(password)
            THEN Json(400, [error |-> "Email and password are required"], <<>>)
            ELSE IF email.type # "string"
            THEN \* email.toLowerCase is not a function; caught by the handler
                 Json(500, [error |-> "Internal server error"], <<>>)
            ELSE LET found == FindUser(email, password)
                 IN IF found = 0
                    THEN Json(401, [error |-> "Invalid email or password"], <<>>)
                    ELSE IF key = ""
                    THEN Json(500, [error |-> "Server configuration error"], <<>>)
                    ELSE LET user == USERS[found]
                             token == jwtSign([sub |-> user.id, email |-> user.email,
                                               name |-> user.name], key, TTL, clock)
                             cookie == serialize(token, CookieMaxAge, env)
                         IN Json(200,
                                 [success |-> TRUE,
                                  user |-> [id |-> user.id, email |-> user.email,
                                            name |-> user.name]],
                                 <<cookie>>)

----------------------------------------------------------------------------
(* POST /api/logout *)

\* faulty variant: the cookie is cleared only when the request carried one
logout_onlyWithCookie(request, env) ==
    IF request.method # "POST"
    THEN Json(405, [error |-> "Method not allowed"], <<>>)
    ELSE IF request.cookie.kind \in {"absent", "empty"}
    THEN Json(200, [success |-> TRUE], <<>>)
    ELSE Json(200, [success |-> TRUE], <<serialize(CookieEmpty, 0, env)>>)

\* faulty variant: logout answers without clearing the cookie
logout_keepsCookie(request, env) ==
    IF request.method # "POST"
    THEN Json(405, [error |-> "Method not allowed"], <<>>)
    ELSE Json(200, [success |-> TRUE], <<>>)

\* faulty variant: the cookie is cleared whatever the verb
logout_clearsOnAnyVerb(request, env) ==
    IF request.method # "POST"
    THEN Json(405, [error |-> "Method not allowed"], <<serialize(CookieEmpty, 0, env)>>)
    ELSE Json(200, [success |-> TRUE], <<serialize(CookieEmpty, 0, env)>>)

logout(request, env) ==
    IF request.method # "POST"
    THEN Json(405, [error |-> "Method not allowed"], <<>>)
    ELSE Json(200, [success |-> TRUE], <<serialize(CookieEmpty, 0, env)>>)

----------------------------------------------------------------------------
(* GET /api/me *)

\* `!token` on the parsed cookie
HasToken(cookie) == cookie.kind \notin {"absent", "empty"}

\* faulty variant: the id of the returned user is taken from the name claim
me_idFromName(request, key, clock) ==
    IF request.method # "GET"
    THEN Json(405, [error |-> "Method not allowed"], <<>>)
    ELSE IF ~HasToken(request.cookie)
    THEN Json(401, [error |-> "Not authenticated"], <<>>)
    ELSE IF key = ""
    THEN Json(500, [error |-> "Server configuration error"], <<>>)
    ELSE LET decoded == jwtVerify(request.cookie, key, clock)
         IN IF decoded.threw # "none"
            THEN Json(401, [error |-> "Invalid token"], <<>>)
            ELSE Json(200,
                      [user |-> [id |-> decoded.payload.name,
                                 email |-> decoded.payload.email,
                                 name |-> decoded.payload.name]],
                      <<>>)

\* faulty variant: the secret is checked before the cookie
me_secretFirst(request, key, clock) ==
    IF request.method # "GET"
    THEN Json(405, [error |-> "Method not allowed"], <<>>)
    ELSE IF key = ""
    THEN Json(500, [error |-> "Server configuration error"], <<>>)
    ELSE IF ~HasToken(request.cookie)
    THEN Json(401, [error |-> "Not authenticated"], <<>>)
    ELSE LET decoded == jwtVerify(request.cookie, key, clock)
         IN IF decoded.threw # "none"
            THEN Json(401, [error |-> "Invalid token"], <<>>)
            ELSE Json(200,
                      [user |-> [id |-> decoded.payload.sub,
                                 email |-> decoded.payload.email,
                                 name |-> decoded.payload.name]],
                      <<>>)

\* faulty variant: an expired token gets a message of its own
me_tellsExpired(request, key, clock) ==
    IF request.method # "GET"
    THEN Json(405, [error |-> "Method not allowed"], <<>>)
    ELSE IF ~HasToken(request.cookie)
    THEN Json(401, [error |-> "Not authenticated"], <<>>)
    ELSE IF key = ""
    THEN Json(500, [error |-> "Server configuration error"], <<>>)
    ELSE LET decoded == jwtVerify(request.cookie, key, clock)
         IN IF decoded.threw = "TokenExpiredError"
            THEN Json(401, [error |-> "Token expired"], <<>>)
            ELSE IF decoded.threw # "none"
            THEN Json(401, [error |-> "Invalid token"], <<>>)
            ELSE Json(200,
                      [user |-> [id |-> decoded.payload.sub,
                                 email |-> decoded.payload.email,
                                 name |-> decoded.payload.name]],
                      <<>>)

me(request, key, clock) ==
    IF request.method # "GET"
    THEN Json(405, [error |-> "Method not allowed"], <<>>)
    ELSE IF ~HasToken(request.cookie)
    THEN Json(401, [error |-> "Not authenticated"], <<>>)
    ELSE IF key = ""
    THEN Json(500, [error |-> "Server configuration error"], <<>>)
    ELSE LET decoded == jwtVerify(request.cookie, key, clock)
         IN IF decoded.threw # "none"
            THEN Json(401, [error |-> "Invalid token"], <<>>)
            ELSE Json(200,
                      [user |-> [id |-> decoded.payload.sub,
                                 email |-> decoded.payload.email,
                                 name |-> decoded.payload.name]],
                      <<>>)

----------------------------------------------------------------------------
(* middleware.ts *)

PROTECTED_ROUTES == <<S_profile, S_dashboard, S_settings, S_api_protected>>

\* faulty variant: a route guards every path it is a prefix of
isProtectedRoute_prefixOnly(pathname) ==
    \E i \in DOMAIN PROTECTED_ROUTES : startsWith(pathname, PROTECTED_ROUTES[i])

isProtectedRoute(pathname) ==
    \E i \in DOMAIN PROTECTED_ROUTES :
        \/ pathname = PROTECTED_ROUTES[i]
        \/ startsWith(pathname, PROTECTED_ROUTES[i] \o S_slash)

\* NextResponse.next()
NextResponseNext ==
    [type |-> "next", pathname |-> <<>>, searchParams |-> {}, deleted |-> {}]

\* NextResponse.redirect(url), with the cookies the response deletes
NextResponseRedirect(pathname, searchParams, deleted) ==
    [type |-> "redirect", pathname |-> pathname,
     searchParams |-> searchParams, deleted |-> deleted]

\* faulty variant: the request proceeds when no secret is configured
onMissingSecret_proceed(request) == NextResponseNext

\* faulty variant: a request without a cookie proceeds
onMissingToken_proceed(request) == NextResponseNext

\* faulty variant: the redirect for a missing cookie does not record the original path
onMissingToken_noFrom(request) == NextResponseRedirect(S_login, {}, {})

\* faulty variant: the redirect for a rejected token leaves the cookie in place
onVerifyFailure_keepCookie(request) == NextResponseRedirect(S_login, {}, {})

\* if (!token) { ... }: redirect to /login?from=<pathname>
onMissingToken(request) ==
    NextResponseRedirect(S_login, {<<"from", request.pathname>>}, {})

\* if (!secret) { ... }: redirect to /login
onMissingSecret(request) ==
    NextResponseRedirect(S_login, {}, {})

\* catch (error) { ... }: redirect to /login and delete the cookie
onVerifyFailure(request) ==
    NextResponseRedirect(S_login, {}, {"token"})

middleware(request, key, clock) ==
    IF ~isProtectedRoute(request.pathname)
    THEN NextResponseNext
    ELSE IF ~HasToken(request.cookie)
    THEN onMissingToken(request)
    ELSE IF key = ""
    THEN onMissingSecret(request)
    ELSE IF jwtVerify(request.cookie, key, clock).threw = "none"
    THEN NextResponseNext
    ELSE onVerifyFailure(request)

\* the alternatives of the negative lookahead in config.matcher
MatcherExclusions ==
    { <<"_","n","e","x","t">>, <<"s","t","a","t","i","c">>, <<"f","a","v","i","c","o","n",".","i","c","o">>, <<"m","a","n","i","f","e","s","t",".","j","s","o","n">>, <<"l","o","g","i","n">>, <<"r","e","g","i","s","t","e","r">> }

\* a regular-expression literal matches a prefix of s ('.' is any character)
MatchesPrefix(s, pattern) ==
    /\ Len(s) >= Len(pattern)
    /\ \A i \in 1..Len(pattern) : pattern[i] = "." \/ pattern[i] = s[i]

\* config.matcher: '/((?!_next|static|favicon.ico|manifest.json|login|register).*)'
matcher(pathname) ==
    /\ Len(pathname) >= 1
    /\ pathname[1] = "/"
    /\ ~\E w \in MatcherExclusions : MatchesPrefix(Tail(pathname), w)

\* what the framework does with a page request: the middleware runs on the
\* paths config.matcher selects, every other request proceeds
gate(request, key, clock) ==
    IF matcher(request.pathname)
    THEN middleware(request, key, clock)
    ELSE NextResponseNext

----------------------------------------------------------------------------
(* Requests *)

Methods == {"GET", "POST", "PUT"}

Paths ==
    {S_profile, S_dashboard, S_settings, S_api_protected,
     S_profile_edit, S_profilex, S_login, S_root}

\* the principal of a token whose claims were altered after signing
tamperedSub == "2"

\* the tokens login can have produced with some secret, on a day logins happen
SignedTokens ==
    { jwtSign([sub |-> USERS[i].id, email |-> USERS[i].email, name |-> USERS[i].name],
              k, TTL, t) : i \in DOMAIN USERS, k \in Secrets, t \in 0..MaxIssue }

\* a signed token whose claims were changed without re-signing
TamperedTokens ==
    { [t EXCEPT !.payload.exp = @ + 1] : t \in SignedTokens } \cup
    { [t EXCEPT !.payload.sub = tamperedSub] : t \in SignedTokens }

\* what a request can carry as the value of its 'token' cookie
CookieValues ==
    {CookieAbsent, CookieEmpty, CookieMalformed} \cup SignedTokens \cup TamperedTokens

EmailInputs ==
    {Undefined, Str(<<>>), Num(42), Str(S_user_example_com),
     Str(S_USER_EXAMPLE_COM), Str(S_other_example_com)}

PasswordInputs ==
    {Undefined, Str(<<>>), Num(42), Str(S_password123), Str(S_Password123)}

Bodies ==
    {Null} \cup
    { [type |-> "object", email |-> e, password |-> p] :
        e \in EmailInputs, p \in PasswordInputs }

NoRequest == [route |-> "none"]
NoResponse == [status |-> 0]

----------------------------------------------------------------------------
(* hooks/useAuth.ts (README.md): state *)

\* a message the code never looks into is one symbol
Msg(text) == Str(<<text>>)

\* useState<AuthState>({...})
InitialAuthState ==
    [user |-> Null, loading |-> TRUE, error |-> Null, authenticated |-> FALSE]

NoReturn == [fn |-> "none"]

\* the page before its first render is committed
Unmounted ==
    [mounted |-> FALSE, submit |-> "idle", isLoggingIn |-> FALSE,
     errorMessage |-> "", from |-> Undefined,
     effectDeps |-> [authenticated |-> FALSE, loading |-> TRUE]]

\* withAuth's component before its first render is committed
NoWrapper ==
    [mounted |-> FALSE, authState |-> InitialAuthState, awaiting |-> FALSE,
     effectDeps |-> [authenticated |-> FALSE, loading |-> TRUE]]

\* no browser takes part
NoBrowser ==
    /\ component = "none"
    /\ authState = InitialAuthState
    /\ pending = {}
    /\ started = 0
    /\ returned = NoReturn
    /\ nav = <<>>
    /\ page = Unmounted
    /\ wrapper = NoWrapper
    /\ sinceLogout = FALSE

----------------------------------------------------------------------------
(* Cookie jar of an HTTP client: state *)

\* the client holds no 'token' cookie
EmptyJar == [value |-> CookieAbsent, setAt |-> 0, maxAge |-> 0]

NoSession == [lastChange |-> [kind |-> "none"], afterLogout |-> FALSE]

\* no cookie-keeping client takes part
NoJar ==
    /\ jar = EmptyJar
    /\ session = NoSession

----------------------------------------------------------------------------
(* State machine *)

Init ==
    /\ secret \in Secrets \cup {""}
    /\ nodeEnv \in {"production", "development"}
    /\ now = 0
    /\ issued = {}
    /\ loggedOut = {}
    /\ req = NoRequest
    /\ resp = NoResponse
    /\ NoBrowser
    /\ NoJar

\* a request to /api/login
LoginRequest ==
    \E m \in Methods, b \in Bodies :
        LET request == [route |-> "login", method |-> m, body |-> b]
            response == login(request, secret, nodeEnv, now)
        IN /\ now <= MaxIssue
           /\ req' = request
           /\ resp' = response
           /\ issued' = issued \cup
                  { [token |-> response.setCookie[i].value, user |-> response.body.user] :
                      i \in DOMAIN response.setCookie }
           /\ UNCHANGED <<secret, nodeEnv, now, loggedOut>>
           /\ UNCHANGED <<cvars, jvars>>

\* a request to /api/logout
LogoutRequest ==
    \E m \in Methods, c \in CookieValues :
        LET request == [route |-> "logout", method |-> m, cookie |-> c]
            response == logout(request, nodeEnv)
        IN /\ req' = request
           /\ resp' = response
           /\ loggedOut' = IF response.status = 200 /\ \E s \in issued : s.token = c
                           THEN loggedOut \cup {c} ELSE loggedOut
           /\ UNCHANGED <<secret, nodeEnv, now, issued>>
           /\ UNCHANGED <<cvars, jvars>>

\* a request to /api/me
MeRequest ==
    \E m \in Methods, c \in CookieValues :
        LET request == [route |-> "me", method |-> m, cookie |-> c]
        IN /\ req' = request
           /\ resp' = me(request, secret, now)
           /\ UNCHANGED <<secret, nodeEnv, now, issued, loggedOut>>
           /\ UNCHANGED <<cvars, jvars>>

\* a page or API request that passes the route gate first
PageRequest ==
    \E p \in Paths, c \in CookieValues :
        LET request == [route |-> "page", pathname |-> p, cookie |-> c]
        IN /\ req' = request
           /\ resp' = gate(request, secret, now)
           /\ UNCHANGED <<secret, nodeEnv, now, issued, loggedOut>>
           /\ UNCHANGED <<cvars, jvars>>

\* a day passes; the last exchange is over
Tick ==
    /\ now < MaxTime
    /\ now' = now + 1
    /\ req' = NoRequest
    /\ resp' = NoResponse
    /\ UNCHANGED <<secret, nodeEnv, issued, loggedOut>>
    /\ UNCHANGED <<cvars, jvars>>

Next ==
    \/ LoginRequest
    \/ LogoutRequest
    \/ MeRequest
    \/ PageRequest
    \/ Tick

Spec == Init /\ [][Next]_vars

----------------------------------------------------------------------------
(* Vocabulary of the properties *)

\* the protected set as the specification lists it
ProtectedSet == {S_profile, S_dashboard, S_settings, S_api_protected}

\* path is a protected route, exactly or followed by '/'
IsProtectedPath(path) ==
    \E r \in ProtectedSet :
        \/ path = r
        \/ Len(path) > Len(r) /\ \A i \in 1..(Len(r) + 1) : path[i] = (r \o <<"/">>)[i]

\* the cookie is a token whose signature verifies under the configured secret
SignatureValid(cookie) ==
    /\ cookie.kind = "jwt"
    /\ secret # ""
    /\ cookie.sig = [over |-> cookie.payload, key |-> secret]

\* the cookie is a token that verifies under the configured secret and is unexpired
ValidSession(cookie) ==
    /\ SignatureValid(cookie)
    /\ now < cookie.payload.exp

GateRequest == req.route = "page" /\ IsProtectedPath(req.pathname)
MeGet == req.route = "me" /\ req.method = "GET"

PassedThrough == resp.type = "next"
RedirectedToLogin == resp.type = "redirect" /\ resp.pathname = S_login

IssuedTokens == { s.token : s \in issued }

\* the cookies a response sets (API responses only; the gate sets none)
SetCookies(r) ==
    IF "setCookie" \in DOMAIN r
    THEN { r.setCookie[i] : i \in DOMAIN r.setCookie }
    ELSE {}

\* two characters are the same letter in either case, or the same character
SameCharIgnoringCase(a, b) ==
    \/ a = b
    \/ \E i \in 1..26 : {a, b} = {UpperLetters[i], LowerLetters[i]}

\* two strings are equal up to letter case
EqualsIgnoringCase(x, y) ==
    /\ Len(x) = Len(y)
    /\ \A i \in 1..Len(x) : SameCharIgnoringCase(x[i], y[i])

\* the public fields of a stored principal
PublicFields(u) == [id |-> u.id, email |-> u.email, name |-> u.name]

LogoutPost == req.route = "logout" /\ req.method = "POST"

----------------------------------------------------------------------------
(* Properties *)

\* C1 -- Auth Gate safety: a request to a protected path passes through only
\* if its 'token' cookie verifies under the configured JWT_SECRET and is not
\* expired; in every other case (no cookie, no secret, bad signature, expired)
\* the response is a redirect to /login.
C1_AuthGateSafety ==
    GateRequest =>
        /\ PassedThrough => ValidSession(req.cookie)
        /\ ~ValidSession(req.cookie) => RedirectedToLogin

C1_Witness ==
    /\ GateRequest
    /\ req.cookie \in IssuedTokens
    /\ ValidSession(req.cookie)
    /\ PassedThrough

\* C2 -- Issuance safety: a Set-Cookie carrying a signed token for principal P
\* is produced only by a POST to the login handler whose email equals P's email
\* up to letter case and whose password equals P's password exactly, with a
\* secret configured; no other request or outcome sets a token.
C2_IssuanceSafety ==
    \A c \in SetCookies(resp) :
        c.value.kind = "jwt" =>
            /\ req.route = "login"
            /\ req.method = "POST"
            /\ resp.status = 200
            /\ secret # ""
            /\ req.body.type = "object"
            /\ req.body.email.type = "string"
            /\ \E i \in DOMAIN USERS :
                /\ c.value.payload.sub = USERS[i].id
                /\ c.value.payload.email = USERS[i].email
                /\ c.value.payload.name = USERS[i].name
                /\ c.value.sig = [over |-> c.value.payload, key |-> secret]
                /\ EqualsIgnoringCase(req.body.email.val, USERS[i].email)
                /\ req.body.password = [type |-> "string", val |-> USERS[i].password]

C2_Witness ==
    /\ req.route = "login"
    /\ req.method = "POST"
    /\ req.body.type = "object"
    /\ req.body.email = Str(S_USER_EXAMPLE_COM)
    /\ \E c \in SetCookies(resp) : c.value.kind = "jwt"

\* C3 -- Round trip: the token set by a successful login for principal P,
\* presented unexpired to GET /api/me under the same secret, yields 200 with
\* user {id, email, name} equal to P's id, email and name.
C3_RoundTrip ==
    MeGet =>
        \A s \in issued :
            (s.token = req.cookie /\ now < s.token.payload.exp) =>
                /\ resp.status = 200
                /\ resp.body.user = s.user
                /\ \E i \in DOMAIN USERS : resp.body.user = PublicFields(USERS[i])

C3_Witness ==
    /\ MeGet
    /\ req.cookie \in IssuedTokens
    /\ now < req.cookie.payload.exp
    /\ resp.status = 200
    /\ resp.body.user = PublicFields(USERS[1])

\* C4 -- Expiry: under a configured secret, GET /api/me answers 401 and the
\* gate redirects to /login for a token whenever now >= its expiresAt (also
\* when now = expiresAt), whatever its signature; a token whose signature is
\* valid is accepted by both at every time strictly before expiresAt.
C4_Expiry ==
    /\ (MeGet /\ req.cookie.kind = "jwt" /\ secret # "") =>
          /\ now >= req.cookie.payload.exp => resp.status = 401
          /\ (now < req.cookie.payload.exp /\ SignatureValid(req.cookie)) =>
                resp.status = 200
    /\ (GateRequest /\ req.cookie.kind = "jwt") =>
          /\ now >= req.cookie.payload.exp => RedirectedToLogin
          /\ (now < req.cookie.payload.exp /\ SignatureValid(req.cookie)) =>
                PassedThrough

C4_Witness ==
    /\ MeGet
    /\ req.cookie \in IssuedTokens
    /\ now = req.cookie.payload.exp
    /\ resp.status = 401

\* the cookie is a token signed under a secret other than the configured one
SignedUnderOtherSecret(cookie) ==
    /\ cookie.kind = "jwt"
    /\ secret # ""
    /\ \E k \in Secrets \ {secret} : cookie.sig = [over |-> cookie.payload, key |-> k]

\* C5 -- Secret binding: a token signed under a secret different from the
\* configured JWT_SECRET never verifies: GET /api/me answers 401 and the gate
\* redirects to /login.
C5_SecretBinding ==
    /\ (MeGet /\ SignedUnderOtherSecret(req.cookie)) => resp.status = 401
    /\ (GateRequest /\ SignedUnderOtherSecret(req.cookie)) => RedirectedToLogin

C5_Witness ==
    /\ GateRequest
    /\ SignedUnderOtherSecret(req.cookie)
    /\ now < req.cookie.payload.exp
    /\ RedirectedToLogin

\* C6 -- No server-side revocation: after any sequence of login and logout
\* requests, a token issued by a successful login that has not reached its
\* expiry is still accepted by GET /api/me (200) and by the gate (pass-through).
C6_NoRevocation ==
    \A t \in IssuedTokens :
        /\ (MeGet /\ req.cookie = t /\ now < t.payload.exp) => resp.status = 200
        /\ (GateRequest /\ req.cookie = t /\ now < t.payload.exp) => PassedThrough

C6_Witness ==
    /\ MeGet
    /\ req.cookie \in loggedOut
    /\ resp.status = 200

\* the response that clears the session cookie
ClearsCookie(r) ==
    /\ r.status = 200
    /\ r.body = [success |-> TRUE]
    /\ Len(r.setCookie) = 1
    /\ r.setCookie[1].name = "token"
    /\ r.setCookie[1].value = [kind |-> "empty"]
    /\ r.setCookie[1].maxAge = 0

\* C7 -- POST logout always returns 200 {success: true} with a Set-Cookie that
\* sets 'token' to the empty value with maxAge 0, whatever token the request
\* carried and whether or not a secret is configured; a repeated logout gets
\* the same response.
C7_LogoutAlwaysClears ==
    /\ [](LogoutPost => ClearsCookie(resp))
    /\ [][(LogoutPost /\ LogoutPost') => resp' = resp]_vars

C7_Witness ==
    /\ LogoutPost
    /\ req.cookie \in {CookieAbsent, CookieEmpty}
    /\ secret = ""
    /\ ClearsCookie(resp)

\* C8 -- A request to a protected path that carries no 'token' cookie is
\* redirected to /login with query parameter from equal to the requested
\* pathname.
C8_NoCookieRedirectsWithFrom ==
    (GateRequest /\ req.cookie.kind = "absent") =>
        /\ RedirectedToLogin
        /\ resp.searchParams = {<<"from", req.pathname>>}

C8_Witness ==
    /\ GateRequest
    /\ req.pathname = S_profile_edit
    /\ req.cookie.kind = "absent"
    /\ RedirectedToLogin
    /\ <<"from", S_profile_edit>> \in resp.searchParams

\* C9 -- A request to a protected path carrying a token that fails verification
\* (tampered signature or expired) is redirected to /login by a response that
\* also deletes the 'token' cookie.
C9_InvalidTokenClearsCookie ==
    (GateRequest /\ req.cookie.kind = "jwt" /\ secret # "" /\ ~ValidSession(req.cookie)) =>
        /\ RedirectedToLogin
        /\ "token" \in resp.deleted

C9_Witness ==
    /\ GateRequest
    /\ req.cookie \in TamperedTokens
    /\ secret # ""
    /\ req.cookie.sig.key = secret
    /\ RedirectedToLogin
    /\ "token" \in resp.deleted

\* C10 -- Every redirect the route gate issues on failure (cookie absent, token
\* failing verification, or secret not configured) targets the login path with
\* a from query parameter set to the original request path.
C10_EveryRedirectCarriesFrom ==
    (GateRequest /\ resp.type = "redirect") =>
        /\ resp.pathname = S_login
        /\ <<"from", req.pathname>> \in resp.searchParams

\* C11 -- Every gate failure for a request that carried a 'token' cookie also
\* clears that cookie in the redirect response, including the failure where
\* the signing secret is not configured.
C11_EveryFailureClearsCookie ==
    (GateRequest /\ req.cookie.kind \notin {"absent", "empty"} /\ resp.type = "redirect") =>
        "token" \in resp.deleted

\* C12 -- Path membership and pass-through: a path is gated iff it equals a
\* protected route or starts with one followed by '/' (so /login, / and
\* /profilex are not gated); a request to a path that is not gated proceeds
\* whatever its cookie and the secret are, with no redirect and no cookie
\* change, and a request to a gated path without a cookie is redirected.
C12_PathMembership ==
    req.route = "page" =>
        /\ ~IsProtectedPath(req.pathname) =>
              resp = [type |-> "next", pathname |-> <<>>,
                      searchParams |-> {}, deleted |-> {}]
        /\ (IsProtectedPath(req.pathname) /\ req.cookie.kind = "absent") =>
              resp.type = "redirect"
        /\ ~IsProtectedPath(S_login) /\ ~IsProtectedPath(S_root)
        /\ ~IsProtectedPath(S_profilex)

C12_Witness ==
    /\ req.route = "page"
    /\ req.pathname = S_profilex
    /\ req.cookie \in TamperedTokens
    /\ secret = ""
    /\ PassedThrough


\* ---- vocabulary of the login claims ----
LoginPost == req.route = "login" /\ req.method = "POST"

\* a field that was sent and is not empty
Present(v) ==
    \/ v.type = "string" /\ v.val # <<>>
    \/ v.type = "number" /\ v.val # 0

PresentString(v) == v.type = "string" /\ v.val # <<>>

BothPresent ==
    /\ req.body.type = "object"
    /\ Present(req.body.email)
    /\ Present(req.body.password)

KnownIdentifier(email) ==
    /\ email.type = "string"
    /\ \E k \in DOMAIN USERS : EqualsIgnoringCase(email.val, USERS[k].email)

CredentialsMatch(email, password) ==
    /\ email.type = "string"
    /\ password.type = "string"
    /\ \E k \in DOMAIN USERS :
          /\ EqualsIgnoringCase(email.val, USERS[k].email)
          /\ password.val = USERS[k].password

InvalidCredentialsResponse ==
    [status |-> 401, body |-> [error |-> "Invalid email or password"], setCookie |-> <<>>]

\* C13 -- Login non-disclosure: a POST login with both fields present whose
\* credentials match no stored principal gets one fixed response, status 401,
\* body {error: 'Invalid email or password'} and no Set-Cookie header, whether
\* the identifier exists (wrong secret) or is unknown; the two responses are
\* therefore identical.
C13_LoginNonDisclosure ==
    (/\ LoginPost
     /\ BothPresent
     /\ PresentString(req.body.email)
     /\ ~CredentialsMatch(req.body.email, req.body.password)) =>
        /\ resp = InvalidCredentialsResponse
        /\ SetCookies(resp) = {}

C13_Witness ==
    /\ LoginPost
    /\ BothPresent
    /\ KnownIdentifier(req.body.email)
    /\ req.body.password = Str(S_Password123)
    /\ resp = InvalidCredentialsResponse

\* an unknown identifier is answered, and answered the same way
C13_WitnessUnknown ==
    /\ LoginPost
    /\ BothPresent
    /\ PresentString(req.body.email)
    /\ ~KnownIdentifier(req.body.email)
    /\ resp = InvalidCredentialsResponse

\* C14 (as stated) -- with no signing secret configured, every POST login with
\* both fields present is answered 500, whether or not the credentials match.
C14_NoSecretAlways500 ==
    (LoginPost /\ BothPresent /\ secret = "") => resp.status = 500

\* C14 (amended) -- with no signing secret configured, a POST login with both
\* fields present is answered 500 'Server configuration error' and sets no
\* cookie when the credentials match a stored principal; string credentials
\* that match none are answered 401 before the secret is looked at, and an
\* identifier that is not a string is answered 500 'Internal server error'.
C14_NoSecretOnMatch500 ==
    (LoginPost /\ BothPresent /\ secret = "") =>
        /\ SetCookies(resp) = {}
        /\ CredentialsMatch(req.body.email, req.body.password) =>
              resp = [status |-> 500,
                      body |-> [error |-> "Server configuration error"],
                      setCookie |-> <<>>]
        /\ (/\ PresentString(req.body.email)
            /\ ~CredentialsMatch(req.body.email, req.body.password)) =>
              resp = InvalidCredentialsResponse
        /\ ~PresentString(req.body.email) =>
              resp = [status |-> 500,
                      body |-> [error |-> "Internal server error"],
                      setCookie |-> <<>>]

C14_Witness ==
    /\ LoginPost
    /\ BothPresent
    /\ secret = ""
    /\ CredentialsMatch(req.body.email, req.body.password)
    /\ resp.status = 500
    /\ resp.body.error = "Server configuration error"

\* C15 -- a POST login whose identifier or secret is missing, empty or not a
\* string is answered 400 and sets no cookie; no malformed input gets another
\* status.
C15_MalformedInputIs400 ==
    (/\ LoginPost
     /\ \/ req.body.type # "object"
        \/ ~PresentString(req.body.email)
        \/ ~PresentString(req.body.password)) =>
        /\ resp.status = 400
        /\ SetCookies(resp) = {}


\* ---- vocabulary of the session accessor claims ----
MeAny == req.route = "me"

\* the reference table of C16, with the cookie check as worded: cookie absent
MeStatusTable(method, cookie) ==
    IF method # "GET" THEN 405
    ELSE IF cookie.kind = "absent" THEN 401
    ELSE IF secret = "" THEN 500
    ELSE IF ~ValidSession(cookie) THEN 401
    ELSE 200

\* the same table with the cookie check on the value: absent or empty
MeStatusTableNoValue(method, cookie) ==
    IF method # "GET" THEN 405
    ELSE IF cookie.kind \in {"absent", "empty"} THEN 401
    ELSE IF secret = "" THEN 500
    ELSE IF ~ValidSession(cookie) THEN 401
    ELSE 200

\* C16 (as stated) -- the status of the session accessor is decided by the
\* first failing check in the order: verb is not GET -> 405; 'token' cookie
\* absent -> 401; secret not configured -> 500; token fails verification ->
\* 401; otherwise 200, for every combination of verb, cookie, secret and token.
C16_MeReferenceTable ==
    MeAny => resp.status = MeStatusTable(req.method, req.cookie)

\* C16 (amended) -- the status of the session accessor is decided by the first
\* failing check in the order: verb is not GET -> 405; 'token' cookie absent or
\* of empty value -> 401; secret not configured -> 500; token fails
\* verification -> 401; otherwise 200 with the principal embedded in the token,
\* for every combination of verb, cookie, secret and token.
C16_MeReferenceTableNoValue ==
    MeAny =>
        /\ resp.status = MeStatusTableNoValue(req.method, req.cookie)
        /\ resp.status = 200 =>
              resp.body = [user |-> [id |-> req.cookie.payload.sub,
                                     email |-> req.cookie.payload.email,
                                     name |-> req.cookie.payload.name]]

C16_Witness ==
    /\ MeGet
    /\ req.cookie.kind = "empty"
    /\ secret = ""
    /\ resp.status = 401

\* the other rows of the table are reached as well
C16_WitnessRows ==
    \/ MeAny /\ req.method = "PUT" /\ resp.status = 405
    \/ MeGet /\ req.cookie.kind = "jwt" /\ secret = "" /\ resp.status = 500

InvalidTokenResponse ==
    [status |-> 401, body |-> [error |-> "Invalid token"], setCookie |-> <<>>]

ExpiredToken(cookie) == SignatureValid(cookie) /\ now >= cookie.payload.exp

\* C17 -- Session accessor non-disclosure: under a configured secret, a GET
\* /api/me whose token fails verification gets one fixed response, 401 with
\* body {error: 'Invalid token'}, whether the token is expired or tampered;
\* the two responses are therefore identical.
C17_MeNonDisclosure ==
    (MeGet /\ secret # "" /\ HasToken(req.cookie) /\ ~ValidSession(req.cookie)) =>
        resp = InvalidTokenResponse

C17_Witness ==
    /\ MeGet
    /\ secret # ""
    /\ ExpiredToken(req.cookie)
    /\ resp = InvalidTokenResponse

C17_WitnessTampered ==
    /\ MeGet
    /\ secret # ""
    /\ req.cookie \in TamperedTokens
    /\ now < req.cookie.payload.exp
    /\ resp = InvalidTokenResponse

\* C18 -- Verb gating leaves no effect: a login or logout request with any
\* verb other than POST is answered 405 and emits no Set-Cookie header.
C18_VerbGating ==
    (req.route \in {"login", "logout"} /\ req.method # "POST") =>
        /\ resp.status = 405
        /\ SetCookies(resp) = {}
        /\ resp.setCookie = <<>>

C18_Witness ==
    /\ req.route = "logout"
    /\ req.method = "PUT"
    /\ HasToken(req.cookie)
    /\ resp.status = 405
    /\ resp.setCookie = <<>>

C18_WitnessLogin ==
    /\ req.route = "login"
    /\ req.method = "GET"
    /\ BothPresent
    /\ CredentialsMatch(req.body.email, req.body.password)
    /\ secret # ""
    /\ resp.status = 405



\* ---- vocabulary of the agreement claim ----
\* the four cookie contents the claim names, for the cookie of this request
CookieClass(cookie) ==
    CASE cookie.kind = "absent" -> "absent"
      [] ValidSession(cookie) -> "valid"
      [] ExpiredToken(cookie) -> "expired"
      [] cookie \in TamperedTokens -> "tampered"
      [] OTHER -> "other"

\* GET /api/me with this cookie, under the secret and the clock of this state
MeAccepts(cookie) ==
    me([route |-> "me", method |-> "GET", cookie |-> cookie], secret, now).status = 200

\* the gate on this protected path with this cookie, same secret and clock
GatePasses(pathname, cookie) ==
    gate([route |-> "page", pathname |-> pathname, cookie |-> cookie],
         secret, now).type = "next"

\* C24 -- Gate and session accessor agree: for every cookie content, secret
\* configuration and time, the gate passes a protected-path request through
\* iff GET /api/me with the same cookie, secret and time returns 200.
C24_GateAndMeAgree ==
    /\ GateRequest => (PassedThrough <=> MeAccepts(req.cookie))
    /\ MeGet => \A p \in Paths :
                   IsProtectedPath(p) => (resp.status = 200 <=> GatePasses(p, req.cookie))

C24_Witness ==
    /\ GateRequest
    /\ CookieClass(req.cookie) = "valid"
    /\ PassedThrough
    /\ MeAccepts(req.cookie)

\* an expired token is refused by both
C24_WitnessRefused ==
    /\ MeGet
    /\ CookieClass(req.cookie) = "expired"
    /\ resp.status = 401
    /\ ~GatePasses(S_profile, req.cookie)

----------------------------------------------------------------------------
(* An HTTP client that applies every Set-Cookie it receives *)

SecondsPerDay == 60 * 60 * 24

\* the cookie the client sends: none once maxAge seconds have passed
JarCookie(j, clock) ==
    IF clock * SecondsPerDay >= j.setAt * SecondsPerDay + j.maxAge
    THEN CookieAbsent
    ELSE j.value

\* the jar after the Set-Cookie headers of an API response
applySetCookie(j, setCookie, clock) ==
    IF setCookie = <<>>
    THEN j
    ELSE IF setCookie[1].maxAge <= 0
    THEN EmptyJar
    ELSE [value |-> setCookie[1].value, setAt |-> clock, maxAge |-> setCookie[1].maxAge]

SessionInit ==
    /\ secret \in Secrets \cup {""}
    /\ nodeEnv \in {"production", "development"}
    /\ now = 0
    /\ issued = {}
    /\ loggedOut = {}
    /\ req = NoRequest
    /\ resp = NoResponse
    /\ NoBrowser
    /\ NoJar

\* what this client submits: the stored credentials or a wrong password
SessionBodies ==
    { [type |-> "object", email |-> Str(S_user_example_com), password |-> pw] :
        pw \in {Str(S_password123), Str(S_Password123)} }

\* the client posts (or otherwise sends) a login
SessionLogin ==
    \E m \in Methods, b \in SessionBodies :
        LET request == [route |-> "login", method |-> m, body |-> b]
            response == login(request, secret, nodeEnv, now)
        IN /\ req' = request
           /\ resp' = response
           /\ jar' = applySetCookie(jar, response.setCookie, now)
           /\ session' = IF response.setCookie = <<>>
                         THEN session
                         ELSE [lastChange |-> [kind |-> "login",
                                               token |-> response.setCookie[1].value],
                               afterLogout |-> FALSE]
           /\ UNCHANGED <<secret, nodeEnv, now, issued, loggedOut>>
           /\ UNCHANGED cvars

\* the client sends a logout with the cookie it holds
SessionLogout ==
    \E m \in Methods :
        LET request == [route |-> "logout", method |-> m, cookie |-> JarCookie(jar, now)]
            response == logout(request, nodeEnv)
        IN /\ req' = request
           /\ resp' = response
           /\ jar' = applySetCookie(jar, response.setCookie, now)
           /\ session' = [lastChange |-> IF response.setCookie = <<>>
                                         THEN session.lastChange
                                         ELSE [kind |-> "logout"],
                          afterLogout |-> session.afterLogout \/ m = "POST"]
           /\ UNCHANGED <<secret, nodeEnv, now, issued, loggedOut>>
           /\ UNCHANGED cvars

\* the client requests a page with the cookie it holds
SessionPage ==
    \E p \in Paths :
        LET request == [route |-> "page", pathname |-> p, cookie |-> JarCookie(jar, now)]
            response == gate(request, secret, now)
        IN /\ req' = request
           /\ resp' = response
           /\ jar' = IF "token" \in response.deleted THEN EmptyJar ELSE jar
           /\ session' = IF "token" \in response.deleted
                         THEN [session EXCEPT !.lastChange = [kind |-> "gate"]]
                         ELSE session
           /\ UNCHANGED <<secret, nodeEnv, now, issued, loggedOut>>
           /\ UNCHANGED cvars

\* a day passes
SessionTick ==
    /\ now < MaxTime
    /\ now' = now + 1
    /\ req' = NoRequest
    /\ resp' = NoResponse
    /\ UNCHANGED <<secret, nodeEnv, issued, loggedOut, jar, session>>
    /\ UNCHANGED cvars

SessionNext ==
    \/ SessionLogin
    \/ SessionLogout
    \/ SessionPage
    \/ SessionTick

SessionSpec == SessionInit /\ [][SessionNext]_<<vars, jvars>>

\* ---- vocabulary of the session lifecycle claim ----
\* the last response that changed the cookie was a successful login whose
\* token verifies under the configured secret and has not expired
LiveLogin ==
    /\ session.lastChange.kind = "login"
    /\ ValidSession(session.lastChange.token)

\* C25 -- Session lifecycle of a client that applies every Set-Cookie: after
\* any sequence of login, logout and page requests, its next protected-path
\* request passes the gate iff the most recent cookie-changing response was a
\* successful login whose token is still unexpired under the configured
\* secret; after a POST logout every protected-path request is redirected to
\* /login until another login succeeds.
C25_SessionLifecycle ==
    [][(req'.route = "page" /\ IsProtectedPath(req'.pathname)) =>
          /\ resp'.type = "next" <=> LiveLogin
          /\ session.afterLogout =>
                (resp'.type = "redirect" /\ resp'.pathname = S_login)]_<<vars, jvars>>

\* a session that has lasted some days passes the gate
C25_Witness ==
    /\ GateRequest
    /\ PassedThrough
    /\ LiveLogin
    /\ now > session.lastChange.token.payload.iat
    /\ req.cookie = session.lastChange.token

\* after a logout that followed a login the gate redirects
C25_WitnessAfterLogout ==
    /\ GateRequest
    /\ RedirectedToLogin
    /\ session.afterLogout
    /\ session.lastChange.kind = "logout"

\* the token outlives no cookie: on its expiry day the gate redirects
C25_WitnessExpired ==
    /\ GateRequest
    /\ RedirectedToLogin
    /\ session.lastChange.kind = "login"
    /\ now >= session.lastChange.token.payload.exp

----------------------------------------------------------------------------
(* lib/api.ts *)

\* the user object of a JSON body, as the browser holds it
UserObject(u) == [type |-> "object", id |-> u.id, email |-> u.email, name |-> u.name]

\* what axios gets back for a request: an HTTP response or no response at all
OkData(endpoint) ==
    CASE endpoint = "/me" ->
             {[user |-> UserObject(USERS[1])], [user |-> Undefined]}
      [] endpoint = "/login" ->
             {[success |-> TRUE, user |-> UserObject(USERS[1])]}
      [] endpoint = "/logout" ->
             {[success |-> TRUE]}

ErrorData(endpoint) ==
    CASE endpoint = "/me" ->
             {[status |-> 401, data |-> [error |-> Msg("Invalid token")]],
              [status |-> 500, data |-> [error |-> Msg("Server configuration error")]]}
      [] endpoint = "/login" ->
             {[status |-> 401, data |-> [error |-> Msg("Invalid email or password")]]}
      [] endpoint = "/logout" ->
             {[status |-> 500, data |-> [error |-> Msg("Internal server error")]]}

AxiosOutcomes(endpoint) ==
    { [kind |-> "response", status |-> 200, data |-> d] : d \in OkData(endpoint) }
    \cup { [kind |-> "response", status |-> e.status, data |-> e.data] :
             e \in ErrorData(endpoint) }
    \cup { [kind |-> "network"] }

handleResponse(response) ==
    [data |-> response.data, error |-> Null, status |-> response.status]

handleError(outcome) ==
    IF outcome.kind = "response"
    THEN [data |-> Null, error |-> outcome.data.error, status |-> outcome.status]
    ELSE \* no error.response: the message of the axios error, status 0
         [data |-> Null, error |-> Msg("Network Error"), status |-> 0]

\* api.get and api.post: axios resolves on 2xx and rejects otherwise
apiCall(outcome) ==
    IF outcome.kind = "response" /\ outcome.status \in 200..299
    THEN handleResponse(outcome)
    ELSE handleError(outcome)

----------------------------------------------------------------------------
(* hooks/useAuth.ts (README.md) *)

\* setAuthState((prev) => ({ ...prev, loading: true, error: null }))
setLoading(prev) == [prev EXCEPT !.loading = TRUE, !.error = Null]

\* faulty variant: every 200 answer authenticates, with or without a user
refreshUserThen_trustsStatus(result) ==
    IF Truthy(result.error) \/ result.status # 200
    THEN [user |-> Null, loading |-> FALSE,
          error |-> IF Truthy(result.error) THEN result.error
                    ELSE Msg("Failed to fetch user data"),
          authenticated |-> FALSE]
    ELSE [user |-> IF Truthy(result.data.user) THEN result.data.user ELSE Null,
          loading |-> FALSE, error |-> Null,
          authenticated |-> TRUE]

\* refreshUser, from the response on
refreshUserThen(result) ==
    IF Truthy(result.error) \/ result.status # 200
    THEN [user |-> Null, loading |-> FALSE,
          error |-> IF Truthy(result.error) THEN result.error
                    ELSE Msg("Failed to fetch user data"),
          authenticated |-> FALSE]
    ELSE [user |-> IF Truthy(result.data.user) THEN result.data.user ELSE Null,
          loading |-> FALSE, error |-> Null,
          authenticated |-> Truthy(result.data.user)]

\* login, from the response on: the state it sets when the request failed
loginFailed(prev, result) ==
    [prev EXCEPT !.loading = FALSE,
                 !.error = IF Truthy(result.error) THEN result.error
                           ELSE Msg("Login failed"),
                 !.authenticated = FALSE]

\* logout, from the response on: the state it sets and the value it returns
logoutThen(prev, result) ==
    IF Truthy(result.error) /\ result.status # 200
    THEN [state |-> [prev EXCEPT !.loading = FALSE, !.error = result.error],
          value |-> FALSE]
    ELSE [state |-> [user |-> Null, loading |-> FALSE, error |-> Null,
                     authenticated |-> FALSE],
          value |-> TRUE]

----------------------------------------------------------------------------
(* Browser: the page components and their useAuth instance *)

Components == {"LoginPage", "ProfilePage", "Consumer"}

\* router.query.from on the login page
FromValues == {Undefined, Str(S_dashboard), Str(S_profile)}

\* what the user typed into the form
FormInputs == {Str(<<>>), Str(S_user_example_com)}

ServerIdle ==
    /\ secret = "k1"
    /\ nodeEnv = "development"
    /\ now = 0
    /\ issued = {}
    /\ loggedOut = {}
    /\ req = NoRequest
    /\ resp = NoResponse
    /\ NoJar

ClientInit ==
    /\ ServerIdle
    /\ component \in Components
    /\ authState = InitialAuthState
    /\ pending = {}
    /\ started = 0
    /\ returned = NoReturn
    /\ nav = <<>>
    /\ page \in { [Unmounted EXCEPT !.from = f] : f \in FromValues }
    /\ component # "LoginPage" => page.from = Undefined
    /\ wrapper = NoWrapper
    /\ sinceLogout = FALSE

\* withAuth renders the wrapped component: neither loading nor unauthenticated
WrapperRenders ==
    /\ wrapper.mounted
    /\ ~wrapper.authState.loading
    /\ wrapper.authState.authenticated

\* withAuth(ProfilePage): the effects of the first commit; the wrapper's own
\* useAuth calls refreshUser, its redirect effect sees the first render
WrapperMount ==
    /\ component = "ProfilePage"
    /\ ~wrapper.mounted
    /\ wrapper' = [wrapper EXCEPT !.mounted = TRUE,
                                  !.authState = setLoading(wrapper.authState),
                                  !.awaiting = TRUE]
    /\ started' = started + 1
    /\ UNCHANGED <<component, authState, pending, returned, nav, page, sinceLogout>>
    /\ UNCHANGED <<vars, jvars>>

\* GET /me of the wrapper's useAuth is answered
WrapperRefreshResponse ==
    \E outcome \in AxiosOutcomes("/me") :
        /\ wrapper.awaiting
        /\ wrapper' = [wrapper EXCEPT !.authState = refreshUserThen(apiCall(outcome)),
                                      !.awaiting = FALSE]
        /\ UNCHANGED <<component, authState, pending, started, returned, nav, page,
                       sinceLogout>>
        /\ UNCHANGED <<vars, jvars>>

\* withAuth: a render with changed [authenticated, loading] is committed and
\* the redirect effect runs
WrapperEffect ==
    LET deps == [authenticated |-> wrapper.authState.authenticated,
                 loading |-> wrapper.authState.loading]
    IN /\ wrapper.mounted
       /\ deps # wrapper.effectDeps
       /\ wrapper' = [wrapper EXCEPT !.effectDeps = deps]
       /\ nav' = IF ~deps.loading /\ ~deps.authenticated
                 THEN Append(nav, [op |-> "replace", to |-> S_login, by |-> "withAuth"])
                 ELSE nav
       /\ UNCHANGED <<component, authState, pending, started, returned, page,
                      sinceLogout>>
       /\ UNCHANGED <<vars, jvars>>

\* the effects of the first commit: useAuth calls refreshUser, the page's own
\* effect sees the state of the first render; ProfilePage is rendered by
\* withAuth's component only
Mount ==
    /\ ~page.mounted
    /\ component = "ProfilePage" => WrapperRenders
    /\ page' = [page EXCEPT !.mounted = TRUE]
    /\ authState' = setLoading(authState)
    /\ pending' = pending \cup {[fn |-> "refreshUser", id |-> started + 1, caller |-> "mount"]}
    /\ started' = started + 1
    /\ returned' = NoReturn
    /\ sinceLogout' = FALSE
    /\ UNCHANGED <<component, nav, wrapper>>
    /\ UNCHANGED <<vars, jvars>>

\* GET /me is answered
RefreshUserResponse ==
    \E call \in pending, outcome \in AxiosOutcomes("/me") :
        /\ call.fn = "refreshUser"
        /\ authState' = refreshUserThen(apiCall(outcome))
        /\ pending' = pending \ {call}
        /\ IF call.caller = "login"
           THEN \* login resumes and returns true to handleSubmit
                /\ returned' = [fn |-> "login", value |-> TRUE]
                /\ page' = [page EXCEPT !.submit = "resolvedTrue"]
           ELSE IF call.caller = "consumerLogin"
           THEN \* login resumes and returns true
                /\ returned' = [fn |-> "login", value |-> TRUE]
                /\ page' = page
           ELSE /\ returned' = [fn |-> "refreshUser", value |-> Undefined]
                /\ page' = page
        /\ UNCHANGED <<component, started, nav, wrapper, sinceLogout>>
        /\ UNCHANGED <<vars, jvars>>

\* LoginPage: the form is submitted
HandleSubmit ==
    \E email \in FormInputs, password \in FormInputs :
        /\ component = "LoginPage"
        /\ page.mounted
        /\ ~authState.loading       \* the form is rendered
        /\ ~page.isLoggingIn        \* the button is enabled
        /\ page.submit = "idle"
        /\ IF ~Truthy(email) \/ ~Truthy(password)
           THEN /\ page' = [page EXCEPT !.errorMessage = "Email and password are required"]
                /\ UNCHANGED <<authState, pending, started, returned, sinceLogout>>
           ELSE /\ started < MaxCalls
                /\ page' = [page EXCEPT !.isLoggingIn = TRUE, !.errorMessage = "",
                                        !.submit = "awaiting"]
                /\ authState' = setLoading(authState)
                /\ pending' = pending \cup
                       {[fn |-> "login", id |-> started + 1, caller |-> "handleSubmit"]}
                /\ started' = started + 1
                /\ returned' = NoReturn
                /\ sinceLogout' = FALSE
        /\ UNCHANGED <<component, nav, wrapper>>
        /\ UNCHANGED <<vars, jvars>>

\* POST /login is answered
LoginResponse ==
    \E call \in pending, outcome \in AxiosOutcomes("/login") :
        LET result == apiCall(outcome)
        IN /\ call.fn = "login"
           /\ IF Truthy(result.error) \/ result.status # 200
              THEN /\ authState' = loginFailed(authState, result)
                   /\ pending' = pending \ {call}
                   /\ returned' = [fn |-> "login", value |-> FALSE]
                   /\ page' = IF call.caller = "handleSubmit"
                              THEN [page EXCEPT !.submit = "resolvedFalse"]
                              ELSE page
                   /\ started' = started
                   /\ sinceLogout' = sinceLogout
              ELSE \* await refreshUser()
                   /\ authState' = setLoading(authState)
                   /\ pending' = (pending \ {call}) \cup
                          {[fn |-> "refreshUser", id |-> started + 1,
                            caller |-> IF call.caller = "handleSubmit"
                                       THEN "login" ELSE "consumerLogin"]}
                   /\ started' = started + 1
                   /\ returned' = NoReturn
                   /\ page' = page
                   /\ sinceLogout' = FALSE
           /\ UNCHANGED <<component, nav, wrapper>>
           /\ UNCHANGED <<vars, jvars>>

\* LoginPage: handleSubmit resumes after `await login(email, password)`
HandleSubmitResume ==
    /\ component = "LoginPage"
    /\ page.submit \in {"resolvedTrue", "resolvedFalse"}
    /\ IF page.submit = "resolvedTrue"
       THEN LET redirectPath == IF Truthy(page.from) THEN page.from.val ELSE S_profile
            IN /\ nav' = Append(nav, [op |-> "push", to |-> redirectPath, by |-> "handleSubmit"])
               /\ page' = [page EXCEPT !.submit = "idle", !.isLoggingIn = FALSE]
       ELSE /\ nav' = nav
            /\ page' = [page EXCEPT !.submit = "idle", !.isLoggingIn = FALSE,
                                    !.errorMessage = "Invalid email or password"]
    /\ UNCHANGED <<component, authState, pending, started, returned, wrapper, sinceLogout>>
    /\ UNCHANGED <<vars, jvars>>

\* LoginPage: a render with changed [authenticated, loading] is committed and
\* the effect runs
LoginPageEffect ==
    LET deps == [authenticated |-> authState.authenticated, loading |-> authState.loading]
    IN /\ component = "LoginPage"
       /\ page.mounted
       /\ deps # page.effectDeps
       /\ page' = [page EXCEPT !.effectDeps = deps]
       /\ nav' = IF ~deps.loading /\ deps.authenticated
                 THEN Append(nav, [op |-> "push", to |-> S_profile, by |-> "effect"])
                 ELSE nav
       /\ UNCHANGED <<component, authState, pending, started, returned, wrapper,
                      sinceLogout>>
       /\ UNCHANGED <<vars, jvars>>

\* ProfilePage: the Logout button, shown while user is set, is clicked
LogoutClick ==
    /\ component = "ProfilePage"
    /\ page.mounted
    /\ Truthy(authState.user)
    /\ started < MaxCalls
    /\ authState' = setLoading(authState)
    /\ pending' = pending \cup {[fn |-> "logout", id |-> started + 1, caller |-> "click"]}
    /\ started' = started + 1
    /\ returned' = NoReturn
    /\ UNCHANGED <<component, nav, page, wrapper, sinceLogout>>
    /\ UNCHANGED <<vars, jvars>>

\* POST /logout is answered
LogoutResponse ==
    \E call \in pending, outcome \in AxiosOutcomes("/logout") :
        LET then == logoutThen(authState, apiCall(outcome))
        IN /\ call.fn = "logout"
           /\ authState' = then.state
           /\ pending' = pending \ {call}
           /\ returned' = [fn |-> "logout", value |-> then.value]
           /\ sinceLogout' = (then.value \/ sinceLogout)
           /\ UNCHANGED <<component, started, nav, page, wrapper>>
           /\ UNCHANGED <<vars, jvars>>

\* another component holding the hook calls refreshUser()
CallRefreshUser ==
    /\ component = "Consumer"
    /\ page.mounted
    /\ started < MaxCalls
    /\ authState' = setLoading(authState)
    /\ pending' = pending \cup
           {[fn |-> "refreshUser", id |-> started + 1, caller |-> "consumer"]}
    /\ started' = started + 1
    /\ returned' = NoReturn
    /\ sinceLogout' = FALSE
    /\ UNCHANGED <<component, nav, page, wrapper>>
    /\ UNCHANGED <<vars, jvars>>

\* another component holding the hook calls login(email, password)
CallLogin ==
    /\ component = "Consumer"
    /\ page.mounted
    /\ started < MaxCalls
    /\ authState' = setLoading(authState)
    /\ pending' = pending \cup {[fn |-> "login", id |-> started + 1, caller |-> "consumer"]}
    /\ started' = started + 1
    /\ returned' = NoReturn
    /\ sinceLogout' = FALSE
    /\ UNCHANGED <<component, nav, page, wrapper>>
    /\ UNCHANGED <<vars, jvars>>

\* another component holding the hook calls logout()
CallLogout ==
    /\ component = "Consumer"
    /\ page.mounted
    /\ started < MaxCalls
    /\ authState' = setLoading(authState)
    /\ pending' = pending \cup {[fn |-> "logout", id |-> started + 1, caller |-> "consumer"]}
    /\ started' = started + 1
    /\ returned' = NoReturn
    /\ UNCHANGED <<component, nav, page, wrapper, sinceLogout>>
    /\ UNCHANGED <<vars, jvars>>

ClientNext ==
    \/ WrapperMount
    \/ WrapperRefreshResponse
    \/ WrapperEffect
    \/ Mount
    \/ RefreshUserResponse
    \/ HandleSubmit
    \/ LoginResponse
    \/ HandleSubmitResume
    \/ LoginPageEffect
    \/ LogoutClick
    \/ LogoutResponse
    \/ CallRefreshUser
    \/ CallLogin
    \/ CallLogout

ClientSpec == ClientInit /\ [][ClientNext]_cvars

\* what happens without the user: answers arrive, effects run, awaits resume
ClientFairness ==
    /\ WF_cvars(WrapperMount)
    /\ WF_cvars(WrapperRefreshResponse)
    /\ WF_cvars(WrapperEffect)
    /\ WF_cvars(Mount)
    /\ WF_cvars(RefreshUserResponse)
    /\ WF_cvars(LoginResponse)
    /\ WF_cvars(HandleSubmitResume)
    /\ WF_cvars(LoginPageEffect)
    /\ WF_cvars(LogoutResponse)

ClientFairSpec == ClientSpec /\ ClientFairness

----------------------------------------------------------------------------
(* Properties of the browser side *)

\* C19 -- useAuth.logout clears the client user data regardless of the server
\* response: when logout() has returned, whatever POST /logout was answered
\* (200, an error status, no answer at all), user = null and authenticated =
\* false.
C19_LogoutClearsUser ==
    returned.fn = "logout" =>
        /\ authState.user = Null
        /\ authState.authenticated = FALSE

\* handleSubmit of this login and the effect that saw the login have both run
LoginSettled ==
    /\ component = "LoginPage"
    /\ nav # <<>>
    /\ \E i \in DOMAIN nav : nav[i].by = "handleSubmit"
    /\ page.submit = "idle"
    /\ pending = {}
    /\ page.effectDeps = [authenticated |-> authState.authenticated,
                          loading |-> authState.loading]

RedirectPath == IF page.from.type = "string" THEN page.from.val ELSE S_profile

\* C20 -- after a successful login from the login page the last navigation
\* issued is to the from path (to /profile when there is none), in whatever
\* order handleSubmit's router.push(redirectPath) and the effect's
\* router.push('/profile') run.
C20_LastNavigationIsRedirectPath ==
    LoginSettled => nav[Len(nav)].to = RedirectPath


\* ProfilePage's logout() has just resolved true
LoggedOutFromProfile ==
    /\ component = "ProfilePage"
    /\ returned.fn = "logout"
    /\ returned.value = TRUE

\* withAuth has called router.replace('/login') and no longer renders the page
SentToLogin ==
    /\ \E i \in DOMAIN nav : nav[i].op = "replace" /\ nav[i].to = S_login
    /\ ~WrapperRenders

\* C21 -- logging out from a page wrapped by withAuth sends the user to
\* /login: after ProfilePage's logout() succeeds, the wrapper eventually sees
\* loading = false and authenticated = false, calls router.replace('/login')
\* and stops rendering the wrapped component.
C21_LogoutLeadsToLogin == LoggedOutFromProfile ~> SentToLogin

\* C22 -- in every reachable state of a useAuth instance, under any
\* interleaving of refreshUser, login and logout calls and their responses,
\* authenticated = true implies user is not null.
C22_AuthenticatedHasUser ==
    /\ authState.authenticated => authState.user # Null
    /\ wrapper.authState.authenticated => wrapper.authState.user # Null

\* authenticated while several calls have been made and some are in flight
C22_Witness ==
    /\ component = "Consumer"
    /\ authState.authenticated
    /\ authState.user # Null
    /\ \E c \in pending : c.fn = "logout"
    /\ \E c \in pending : c.fn = "login"

\* C23 -- once logout() has resolved true the instance stays unauthenticated
\* (authenticated = false, user = null) until a login or refreshUser call
\* started after the logout completes; the answer to a refreshUser request
\* that was in flight when logout ran cannot authenticate it again.
C23_StaysLoggedOut ==
    sinceLogout =>
        /\ authState.authenticated = FALSE
        /\ authState.user = Null

====
